---- MODULE Spec2Model ----
(***************************************************************************)
(* Model of the Pracht Alpha wallbox integration: the authenticated API    *)
(* client (api.py), the polling coordinator (coordinator.py), the setup of *)
(* the config entry (__init__.py) and the number and lock-switch entities  *)
(* (number.py, switch.py).                                                 *)
(*                                                                         *)
(* One client instance is shared by two callers that interleave at the     *)
(* client's await points: "coord" runs the coordinator's poll cycle and    *)
(* "user" invokes client operations directly (entities, config flow,       *)
(* tests).  The device is the environment: it may answer any request with  *)
(* any status and any body, and any exchange may fail in transport.        *)
(*                                                                         *)
(* A Python Optional value is a sequence of length at most one: None is    *)
(* <<>> and a value v is <<v>>.                                            *)
(***************************************************************************)
EXTENDS Integers, Sequences, FiniteSets, TLC

\* ------------------------------------------------------------------ bounds

\* Number of distinct auth keys the device can issue.
NumKeys == 2

\* Number of distinct telemetry bodies the device can answer /api/v1/all with.
NumAllBodies == 2

\* Largest raw integer the device sends in a flag or count field.
MaxRaw == 2

\* The monotonic clock is followed up to this many seconds.
MaxTime == 20

\* ------------------------------------------------------------ python values

None == <<>>

Some(v) == <<v>>

\* Python truthiness of a `str | None` value: None and "" are falsy.
Truthy(o) == o # None /\ o[1] # ""

\* dict.get(key, default)
Get(d, k, default) == IF k \in DOMAIN d THEN d[k] ELSE default

EmptyDict == [k \in {} |-> 0]

\* ------------------------------------------------------------- environment

KeyPool == <<"k1", "k2", "k3", "k4">>

\* Opaque non-empty tokens issued by the device's login endpoint.
Keys == {KeyPool[i] : i \in 1..NumKeys}

\* Passwords a caller may pass to login(); the empty string is a str too.
Passwords == {"pw", ""}

Callers == {"coord", "user"}

\* HTTP statuses the device answers with: success, authorization denied, other.
Statuses == {200, 403, 500}

LoginPath == "/api/v1/login"
AllPath == "/api/v1/all"
LockStatusPath == "/api/v1/lock_status"
PowerPath == "/api/v1/power"
LockPath == "/api/v1/lock"
LedModePath == "/api/v1/led_mode"

NoJson == [none |-> TRUE]

AllBodyPool ==
    << [SupportLockUnlock |-> 1, NumChargingPoints |-> 0, MaxCurrentTotal |-> 16,
        MaxCurrentCar1 |-> 16, MaxCurrentCar2 |-> 10],
       [NumChargingPoints |-> 0, MaxCurrentTotal |-> 16],
       [SupportLockUnlock |-> 0, MaxCurrentTotal |-> 6, MaxCurrentCar1 |-> 6,
        MaxCurrentCar2 |-> 6],
       [SupportLockUnlock |-> 1, NumChargingPoints |-> 1, MaxCurrentTotal |-> 20,
        MaxCurrentCar1 |-> 8] >>

AllBodies == {AllBodyPool[i] : i \in 1..NumAllBodies}

LockBodies == { [LockStatus1 |-> "Locked", LockStatus2 |-> "Unlocked"],
                [LockStatus2 |-> "Locked"] }

LoginBodies == {[AuthKey |-> k] : k \in Keys} \cup {EmptyDict}

LedBodies == {[ledMode |-> 2], EmptyDict}

\* The structured bodies the device answers a path with.
DictsFor(path) ==
    CASE path = LoginPath -> LoginBodies
      [] path = AllPath -> AllBodies
      [] path = LockStatusPath -> LockBodies
      [] path = LedModePath -> LedBodies
      [] OTHER -> {EmptyDict}

\* A response body as resp.json()/resp.text() deliver it: a JSON object, any
\* other JSON value, or text that is not JSON.
Bodies(path) ==
    {[kind |-> "dict", d |-> d] : d \in DictsFor(path)}
        \cup {[kind |-> "json", d |-> EmptyDict], [kind |-> "text", d |-> EmptyDict]}

\* The body of a response with an error status: _request reads it as text.
ErrorText == [kind |-> "text", d |-> EmptyDict]

\* The bodies the device may deliver for a response with `status` to `path`.
ResponseBodies(path, status) ==
    IF status = 200 THEN Bodies(path) ELSE {ErrorText}

NoBody == [kind |-> "none", d |-> EmptyDict]

\* The body of a response whose transfer broke off.
LostBody == [kind |-> "lost", d |-> EmptyDict]

\* ------------------------------------------------------------ client: parse

Digit == <<"0", "1", "2", "3", "4", "5", "6", "7", "8", "9">>

RECURSIVE str(_)
\* str() of a non-negative int: its decimal digits.
str(n) == IF n < 10 THEN Digit[n + 1] ELSE str(n \div 10) \o Digit[(n % 10) + 1]

\* dict.get(key): None when the key is absent.
GetOptional(d, k) == IF k \in DOMAIN d THEN Some(d[k]) ELSE None

\* Mutant: an absent NumChargingPoints counts as raw 0.
NumChargingPoints_DefaultZero(data) ==
    IF Get(data, "NumChargingPoints", 0) = 0 THEN 2 ELSE 1

\* num_charging_points=2 if data.get("NumChargingPoints", 1) == 0 else 1
NumChargingPoints(data) ==
    IF Get(data, "NumChargingPoints", 1) = 0 THEN 2 ELSE 1

\* Mutant: a flag is true for every nonzero raw value.
Flag_Nonzero(data, k) == Get(data, k, 0) # 0

\* data.get(k, 0) == 1
Flag(data, k) == Get(data, k, 0) = 1

\* Mutant: an absent energy reading is reported as 0.
Energy_DefaultZero(data, k) == Some(Get(data, k, 0))

\* data.get(k) of the energy readings.
Energy(data, k) == GetOptional(data, k)

_parse_all_data(data) ==
    [ device_id |-> Get(data, "DeviceId", ""),
      \* str(data.get("SoftwareVersion", "")); str("") is ""
      software_version |->
          IF "SoftwareVersion" \in DOMAIN data THEN str(data["SoftwareVersion"]) ELSE "",
      hardware_revision |-> Get(data, "HardwareRevision", 0),
      system_initialized |-> Flag(data, "SystemInitialized"),
      num_charging_points |-> NumChargingPoints(data),
      error_code |-> Get(data, "ErrorCode", 0),
      uptime |-> Get(data, "Uptime", 0),
      max_current_total |-> Get(data, "MaxCurrentTotal", 0),
      max_current_car1 |-> Get(data, "MaxCurrentCar1", 0),
      max_current_car2 |-> Get(data, "MaxCurrentCar2", 0),
      max_current_per_side |-> Get(data, "MaxCurrentPerSide", 0),
      current_car1 |-> Get(data, "CurrentCar1", 0),
      current_car2 |-> Get(data, "CurrentCar2", 0),
      power_car1 |-> Get(data, "PowerCar1", 0),
      power_car2 |-> Get(data, "PowerCar2", 0),
      status_car1 |-> Get(data, "StatusCar1", 0),
      status_car2 |-> Get(data, "StatusCar2", 0),
      current_meas_support |-> Get(data, "CurrentMeasSupport", 0),
      support_lock_unlock |-> Flag(data, "SupportLockUnlock"),
      led_support |-> Flag(data, "LedSupport"),
      rfid_supported |-> Flag(data, "RfidSupported"),
      comm_pcb_temperature |-> Get(data, "CommPcbTemperature", 0),
      box_temperature |-> Get(data, "BoxTemperature", 0),
      current_setting_input_lead |-> Get(data, "CurrentSettingInputLead", 0),
      energy_car1 |-> Energy(data, "EnergyCar1"),
      energy_car2 |-> Energy(data, "EnergyCar2"),
      sw_version_main_pcb |-> Get(data, "SwVersionMainPcb", 0),
      sw_version_modbus_rfid |-> Get(data, "SwVersionModbusRfidModule", 0) ]

\* Mutant: an absent status string is reported as the empty string.
StatusString_DefaultEmpty(data, k, default) == Get(data, k, "")

\* data.get(k, "Unlocked") / data.get(k, "Stopped")
StatusString(data, k, default) == Get(data, k, default)

_parse_lock_status(data) ==
    [ lock_status1 |-> StatusString(data, "LockStatus1", "Unlocked"),
      lock_status2 |-> StatusString(data, "LockStatus2", "Unlocked"),
      timer_status1 |-> StatusString(data, "TimerStatus1", "Stopped"),
      timer_remaining_time1 |-> Get(data, "TimerRemainingTime1", 0),
      timer_status2 |-> StatusString(data, "TimerStatus2", "Stopped"),
      timer_remaining_time2 |-> Get(data, "TimerRemainingTime2", 0),
      power_status1 |-> StatusString(data, "PowerStatus1", "Stopped"),
      timer_remaining_power1 |-> Get(data, "TimerRemainingPower1", 0),
      power_status2 |-> StatusString(data, "PowerStatus2", "Stopped"),
      timer_remaining_power2 |-> Get(data, "TimerRemainingPower2", 0) ]

\* --------------------------------------------------------- client: requests

\* _do_login's request; `pw` is the value passed as password.
LoginRequest(pw) ==
    [method |-> "POST", path |-> LoginPath, json |-> [Password |-> pw]]

\* The HTTP request each client operation issues.
OpRequest(op, arg) ==
    CASE op = "login" -> LoginRequest(Some(arg))
      [] op = "get_all" ->
            [method |-> "GET", path |-> AllPath, json |-> NoJson]
      [] op = "get_lock_status" ->
            [method |-> "GET", path |-> LockStatusPath, json |-> NoJson]
      [] op = "set_power" ->
            [method |-> "POST", path |-> PowerPath,
             json |-> [MaxCurrentTotal |-> arg[1], MaxCurrentCar1 |-> arg[2],
                       MaxCurrentCar2 |-> arg[3]]]
      [] op = "lock" ->
            [method |-> "POST", path |-> LockPath,
             json |-> [action |-> "lock", side |-> arg]]
      [] op = "unlock" ->
            [method |-> "POST", path |-> LockPath,
             json |-> [action |-> "unlock", side |-> arg]]
      [] op = "get_led_mode" ->
            [method |-> "GET", path |-> LedModePath, json |-> NoJson]
      [] op = "set_led_mode" ->
            [method |-> "POST", path |-> LedModePath, json |-> [ledMode |-> arg]]

\* The operations that go through _request with authenticated=True.
AuthenticatedOps == {"get_all", "get_lock_status", "set_power", "lock", "unlock",
                     "get_led_mode", "set_led_mode"}

\* Every operation of the client, as the "user" caller invokes them when it
\* has the client to itself.
ClientCalls ==
    {<<"login", pw>> : pw \in Passwords}
        \cup {<<"get_all", 0>>, <<"get_lock_status", 0>>, <<"get_led_mode", 0>>,
              <<"set_led_mode", 2>>, <<"lock", 0>>, <<"unlock", 1>>,
              <<"set_power", <<16, 16, 10>>>>}

\* The operations the "user" caller invokes while the coordinator polls: the
\* setup's and the config flow's login and get_all, and the entities' commands.
UserCalls ==
    {<<"login", pw>> : pw \in Passwords}
        \cup {<<"get_all", 0>>, <<"lock", 0>>, <<"set_power", <<16, 16, 10>>>>}

\* _request's keyword arguments in each of its three uses.
Authenticated(frame) == frame # "login"

RetryAuth(frame) == frame = "first"

\* Mutant: the AuthKey header is attached to the login request too.
Headers_OnEveryRequest(authenticated, key) ==
    IF Truthy(key) THEN key ELSE None

\* The headers _request builds: AuthKey is attached to an authenticated request
\* when the client holds a truthy key.
Headers(authenticated, key) ==
    IF authenticated /\ Truthy(key) THEN key ELSE None

\* Mutant: every error status is taken for an authorization failure.
IsAuthDenied_AnyError(status) == status # 200

\* The status _request takes for an authorization failure.
IsAuthDenied(status) == status = 403

\* Mutant: the retried attempt re-authenticates again.
ShouldRelogin_OnRetryToo(retry_auth, authenticated, pw) ==
    authenticated /\ Truthy(pw)

\* Mutant: a re-login is attempted although no password is stored.
ShouldRelogin_WithoutPassword(retry_auth, authenticated, pw) ==
    retry_auth /\ authenticated

\* Whether a 403 is answered by a re-login and a retry.
ShouldRelogin(retry_auth, authenticated, pw) ==
    retry_auth /\ authenticated /\ Truthy(pw)

\* _do_login's test of the login result.
HasAuthKey(body) == body.kind = "dict" /\ "AuthKey" \in DOMAIN body.d

\* ------------------------------------------------------------ client: errors

Ok(v) == [kind |-> "ok", value |-> v, status |-> 0, text |-> NoBody]

Err(kind) == [kind |-> kind, value |-> None, status |-> 0, text |-> NoBody]

PrachtAlphaAuthError == Err("AuthError")

PrachtAlphaConnectionError == Err("ConnectionError")

\* PrachtAlphaError(f"API error {resp.status}: {text}")
ApiError(status, text) ==
    [kind |-> "ProtocolError", value |-> None, status |-> status, text |-> text]

\* PrachtAlphaError("Unexpected response from ...")
UnexpectedResponse == Err("ProtocolError")

\* An aiohttp.ClientError or TimeoutError that no handler of the client catches.
UncaughtTransportError == Err("TransportError")

NoResult == Err("none")

\* What an operation makes of the value _request returned for a 200 response.
OpResult(op, body) ==
    CASE op = "get_all" ->
            IF body.kind = "dict" THEN Ok(_parse_all_data(body.d)) ELSE UnexpectedResponse
      [] op = "get_lock_status" ->
            IF body.kind = "dict" THEN Ok(_parse_lock_status(body.d))
            ELSE UnexpectedResponse
      [] op = "get_led_mode" ->
            IF body.kind = "dict" THEN Ok(Get(body.d, "ledMode", 0))
            ELSE UnexpectedResponse
      [] OTHER -> Ok(None)

\* -------------------------------------------------------------------- state

VARIABLES
    auth_key,   \* PrachtAlphaApi._auth_key
    password,   \* PrachtAlphaApi._password
    call,       \* per caller: the client operation it is running
    cyc,        \* the coordinator's poll cycle: _async_update_data's frame
    data,       \* DataUpdateCoordinator.data: the published snapshot
    entry,      \* async_setup_entry's frame and what it set up
    cmd,        \* the entity command the "user" caller is running
    switch,     \* per lock switch: _assumed_state, _assumed_state_until
    now,        \* time.monotonic(), in seconds
    refresh,    \* an out-of-cycle refresh has been requested
    parse,      \* a raw response body and what the parser made of it
    commanded,  \* history: the limit the last number command set, if it succeeded
    device      \* the wallbox: the auth key it accepts

\* The state outside the client and the poll cycle.
hostVars == <<entry, cmd, switch, now, refresh, parse, commanded, device>>

vars == <<auth_key, password, call, cyc, data, hostVars>>

IdleCall ==
    [ op |-> "none", req |-> [method |-> "", path |-> "", json |-> NoJson],
      frame |-> "none", pc |-> "idle",
      sent |-> [method |-> "", path |-> "", json |-> NoJson, hdr |-> None],
      resp |-> [status |-> 0, body |-> NoBody],
      nlogin |-> 0, ntry |-> 0, netfail |-> FALSE,
      result |-> NoResult ]

IdleCycle ==
    [pc |-> "idle", all_data |-> None, all_res |-> "none", lock_res |-> "none",
     outcome |-> "none"]

\* The config entry before async_setup_entry ran.
NoEntry ==
    [pc |-> "idle", outcome |-> "none", coordinator |-> FALSE,
     platforms |-> [switch |-> {}, number |-> {}]]

NoCommand == [kind |-> "none", key |-> "", side |-> 0, value |-> 0]

\* The sides of the wallbox, as the lock endpoint numbers them.
Sides == {0, 1}

\* PrachtAlphaSwitchEntity's class attributes.
NewSwitch == [_assumed_state |-> None, _assumed_state_until |-> 0]

NoParse == [path |-> "", raw |-> EmptyDict, out |-> None]

\* A new PrachtAlphaApi, no config entry set up, no entity created.
InitHost ==
    /\ entry = NoEntry
    /\ cmd = NoCommand
    /\ switch = [side \in Sides |-> NewSwitch]
    /\ now = 0
    /\ refresh = FALSE
    /\ commanded = None
    /\ device = None

Init ==
    /\ auth_key = None
    /\ password = None
    /\ call = [c \in Callers |-> IdleCall]
    /\ cyc = IdleCycle
    /\ data = None
    /\ InitHost
    /\ parse = NoParse

\* The request as it goes on the wire, with the headers built from `key`.
Wire(req, frame, key) ==
    [method |-> req.method, path |-> req.path, json |-> req.json,
     hdr |-> Headers(Authenticated(frame), key)]

\* ------------------------------------------------------------ client actions

\* A caller invokes an operation: login() stores the password; every operation
\* then runs _request up to its first await, the sending of the request.
Begin(c, op, arg) ==
    LET req == OpRequest(op, arg)
        frame == IF op = "login" THEN "login" ELSE "first"
        wire == Wire(req, frame, auth_key)
    IN  [IdleCall EXCEPT !.op = op, !.req = req, !.frame = frame, !.pc = "head",
                         !.sent = wire,
                         !.nlogin = IF op = "login" THEN 1 ELSE 0,
                         !.ntry = IF op = "login" THEN 0 ELSE 1]

Invoke(c, op, arg) ==
    /\ c = "user"
    /\ call[c].pc = "idle"
    /\ password' = IF op = "login" THEN Some(arg) ELSE password
    /\ call' = [call EXCEPT ![c] = Begin(c, op, arg)]
    /\ UNCHANGED <<auth_key, cyc, data, hostVars>>

\* session.request raises aiohttp.ClientError or TimeoutError.
RequestFails(c) ==
    /\ call[c].pc = "head"
    /\ call' = [call EXCEPT ![c].pc = "done", ![c].netfail = TRUE,
                            ![c].result = PrachtAlphaConnectionError]
    /\ UNCHANGED <<auth_key, password, cyc, data, hostVars>>

\* The call state after the response head with `status` arrived.
OnStatus(cs, status, pw, key) ==
    LET seen == [cs EXCEPT !.resp = [status |-> status, body |-> NoBody]]
    IN  IF IsAuthDenied(status)
        THEN IF ShouldRelogin(RetryAuth(cs.frame), Authenticated(cs.frame), pw)
             THEN [seen EXCEPT !.frame = "login", !.pc = "head",
                               !.sent = Wire(LoginRequest(pw), "login", key),
                               !.nlogin = @ + 1]
             ELSE [seen EXCEPT !.pc = "done", !.result = PrachtAlphaAuthError]
        ELSE [seen EXCEPT !.pc = "body"]

\* session.request returns the response head.
ResponseHead(c, status) ==
    /\ call[c].pc = "head"
    /\ call' = [call EXCEPT ![c] = OnStatus(call[c], status, password, auth_key)]
    /\ UNCHANGED <<auth_key, password, cyc, data, hostVars>>

\* resp.text() / resp.json() raise aiohttp.ClientError or TimeoutError while the
\* body is being received; no handler of _request covers them.
BodyFails(c) ==
    /\ call[c].pc = "body"
    /\ call' = [call EXCEPT ![c].pc = "done", ![c].netfail = TRUE,
                            ![c].resp.body = LostBody,
                            ![c].result = UncaughtTransportError]
    /\ UNCHANGED <<auth_key, password, cyc, data, hostVars>>

\* Mutant: the key of the login response is dropped; the old key is kept.
KeyAfterLogin_Stale(key, body) == key

\* Mutant: a login response without a key clears the stored key.
KeyAfterLogin_ClearOnFailure(key, body) ==
    IF HasAuthKey(body) THEN Some(body.d["AuthKey"]) ELSE None

\* The key the client holds after a login exchange returned `body`.
KeyAfterLogin(key, body) ==
    IF HasAuthKey(body) THEN Some(body.d["AuthKey"]) ELSE key

\* The call state after the body of the response arrived.
OnBody(cs, body, key) ==
    LET seen == [cs EXCEPT !.resp.body = body]
    IN  IF cs.resp.status # 200
        THEN [seen EXCEPT !.pc = "done", !.result = ApiError(cs.resp.status, body)]
        ELSE IF cs.frame = "login"
        THEN IF ~HasAuthKey(body)
             THEN [seen EXCEPT !.pc = "done", !.result = PrachtAlphaAuthError]
             ELSE IF cs.op = "login"
             THEN [seen EXCEPT !.pc = "done", !.result = Ok(KeyAfterLogin(key, body))]
             ELSE [seen EXCEPT !.frame = "retry", !.pc = "head",
                               !.sent = Wire(cs.req, "retry", KeyAfterLogin(key, body)),
                               !.ntry = @ + 1]
        ELSE [seen EXCEPT !.pc = "done", !.result = OpResult(cs.op, body)]

\* The body of the response arrives and _request, _do_login and the operation
\* run on to the next await or to the operation's end.
ReceiveBody(c, body) ==
    /\ call[c].pc = "body"
    /\ body \in ResponseBodies(call[c].sent.path, call[c].resp.status)
    /\ call' = [call EXCEPT ![c] = OnBody(call[c], body, auth_key)]
    /\ auth_key' = IF call[c].resp.status = 200 /\ call[c].frame = "login"
                   THEN KeyAfterLogin(auth_key, body) ELSE auth_key
    /\ UNCHANGED <<password, cyc, data>>

ResponseBody(c, body) == ReceiveBody(c, body) /\ UNCHANGED hostVars

\* The caller takes the operation's result or error.
Return(c) ==
    /\ c = "user"
    /\ call[c].pc = "done"
    /\ call' = [call EXCEPT ![c] = IdleCall]
    /\ UNCHANGED <<auth_key, password, cyc, data, hostVars>>

UserInvoke == \E uc \in UserCalls : Invoke("user", uc[1], uc[2])

ClientInvoke == \E uc \in ClientCalls : Invoke("user", uc[1], uc[2])

UserReturn == Return("user")

Transport ==
    \E c \in Callers :
        \/ RequestFails(c)
        \/ \E s \in Statuses : ResponseHead(c, s)
        \/ BodyFails(c)
        \/ \E b \in ResponseBodies(call[c].sent.path, call[c].resp.status) :
                ResponseBody(c, b)

\* -------------------------------------------------------------- coordinator

\* PrachtAlphaCoordinatorData
CoordinatorData(all_data, lock_status) ==
    [all_data |-> all_data, lock_status |-> lock_status]

\* Mutant: an authentication failure is reported as a communication failure.
PrimaryFailure_AuthAsCommunication(kind) ==
    CASE kind = "AuthError" -> "UpdateFailed:communication_error"
      [] kind = "ConnectionError" -> "UpdateFailed:communication_error"
      [] kind = "ProtocolError" -> "UpdateFailed:unknown_error"
      [] OTHER -> "uncaught"

\* What _async_update_data raises when get_all fails with an error of `kind`:
\* the three except clauses, and propagation of what none of them catches.
PrimaryFailure(kind) ==
    CASE kind = "AuthError" -> "ConfigEntryAuthFailed"
      [] kind = "ConnectionError" -> "UpdateFailed:communication_error"
      [] kind = "ProtocolError" -> "UpdateFailed:unknown_error"
      [] OTHER -> "uncaught"

\* Mutant: only the connection error is caught around get_lock_status.
LockFailureCaught_ConnectionOnly(kind) == kind = "ConnectionError"

\* except (PrachtAlphaConnectionError, PrachtAlphaError) around get_lock_status.
LockFailureCaught(kind) == kind \in {"ConnectionError", "ProtocolError"}

\* Mutant: the lock status is fetched whatever the telemetry says.
FetchesLockStatus_Always(all_data) == TRUE

\* `if all_data.support_lock_unlock:` before the lock-status fetch.
FetchesLockStatus(all_data) == all_data.support_lock_unlock

\* _async_update_data starts and runs to its first await: get_all's request.
\* The coordinator exists only after the setup's login succeeded, so the
\* client holds a key.
StartCycle ==
    /\ cyc.pc = "idle"
    /\ auth_key # None
    /\ call["coord"].pc = "idle"
    /\ call' = [call EXCEPT !["coord"] = Begin("coord", "get_all", 0)]
    /\ cyc' = [IdleCycle EXCEPT !.pc = "get_all"]
    /\ UNCHANGED <<auth_key, password, data>>

\* A timer tick or a requested refresh starts _async_update_data.
PollStart == StartCycle /\ UNCHANGED hostVars

\* The cycle ends by returning the snapshot, which the coordinator publishes.
Publish(all_data, all_res, lock_status, lock_res) ==
    /\ cyc' = [pc |-> "done", all_data |-> Some(all_data), all_res |-> all_res,
               lock_res |-> lock_res, outcome |-> "published"]
    /\ data' = Some(CoordinatorData(all_data, lock_status))
    /\ call' = [call EXCEPT !["coord"] = IdleCall]

\* The cycle ends by raising; nothing is published.
Raise(all_data, all_res, lock_res, outcome) ==
    /\ cyc' = [pc |-> "done", all_data |-> all_data, all_res |-> all_res,
               lock_res |-> lock_res, outcome |-> outcome]
    /\ call' = [call EXCEPT !["coord"] = IdleCall]
    /\ UNCHANGED data

\* get_all returned or raised.
PollAllData ==
    /\ cyc.pc = "get_all"
    /\ call["coord"].pc = "done"
    /\ LET r == call["coord"].result
       IN  IF r.kind # "ok"
           THEN Raise(None, r.kind, "none", PrimaryFailure(r.kind))
           ELSE IF FetchesLockStatus(r.value)
           THEN /\ call' = [call EXCEPT
                               !["coord"] = Begin("coord", "get_lock_status", 0)]
                /\ cyc' = [cyc EXCEPT !.pc = "lock_status",
                                      !.all_data = Some(r.value), !.all_res = "ok"]
                /\ UNCHANGED data
           ELSE Publish(r.value, "ok", None, "none")
    /\ UNCHANGED <<auth_key, password, hostVars>>

\* get_lock_status returned or raised.
PollLockStatus ==
    /\ cyc.pc = "lock_status"
    /\ call["coord"].pc = "done"
    /\ LET r == call["coord"].result
       IN  IF r.kind = "ok"
           THEN Publish(cyc.all_data[1], "ok", Some(r.value), "ok")
           ELSE IF LockFailureCaught(r.kind)
           THEN Publish(cyc.all_data[1], "ok", None, r.kind)
           ELSE Raise(cyc.all_data, "ok", r.kind, "uncaught")
    /\ UNCHANGED <<auth_key, password, hostVars>>

\* The coordinator is idle again until the next tick.
PollEnd ==
    /\ cyc.pc = "done"
    /\ cyc' = IdleCycle
    /\ UNCHANGED <<auth_key, password, call, data, hostVars>>

Next ==
    \/ UserInvoke
    \/ UserReturn
    \/ Transport
    \/ PollStart
    \/ PollAllData
    \/ PollLockStatus
    \/ PollEnd

\* The coordinator polling while the user caller runs operations of its own.
Spec == Init /\ [][Next]_vars

NextClient ==
    \/ ClientInvoke
    \/ UserReturn
    \/ Transport

\* The client alone: one caller running every operation, one after another.
SpecClient == Init /\ [][NextClient]_vars

\* -------------------------------------------------------------- config entry

\* Mutant: a refused login is reported like an unreachable device.
SetupLoginFailure_AuthAsNotReady(kind) ==
    CASE kind = "ConnectionError" -> "ConfigEntryNotReady"
      [] kind = "AuthError" -> "ConfigEntryNotReady"
      [] OTHER -> "uncaught"

\* What async_setup_entry raises when login fails with an error of `kind`: its
\* two except clauses, and propagation of what neither catches.
SetupLoginFailure(kind) ==
    CASE kind = "ConnectionError" -> "ConfigEntryNotReady"
      [] kind = "AuthError" -> "ConfigEntryAuthFailed"
      [] OTHER -> "uncaught"

\* What async_config_entry_first_refresh raises when the first poll failed.
FirstRefreshFailure(outcome) ==
    IF outcome = "ConfigEntryAuthFailed" THEN "ConfigEntryAuthFailed"
    ELSE "ConfigEntryNotReady"

\* The lock switches created for snapshot x: DESCRIPTIONS filtered by has_fn.
SwitchEntities(x) ==
    {side \in Sides :
        IF side = 0 THEN x.all_data.support_lock_unlock
        ELSE x.all_data.support_lock_unlock /\ x.all_data.num_charging_points = 2}

\* The current-limit numbers created for snapshot x.
NumberEntities(x) ==
    {"max_current_total", "max_current_car1"}
        \cup (IF x.all_data.num_charging_points = 2 THEN {"max_current_car2"} ELSE {})

\* What async_forward_entry_setups creates from the first snapshot.
Platforms(x) == [switch |-> SwitchEntities(x), number |-> NumberEntities(x)]

NoPlatforms == [switch |-> {}, number |-> {}]

\* async_setup_entry creates the client and runs to its first await: login.
SetupStart(pw) ==
    /\ entry.pc = "idle"
    /\ call["user"].pc = "idle"
    /\ password' = Some(pw)
    /\ call' = [call EXCEPT !["user"] = Begin("user", "login", pw)]
    /\ entry' = [entry EXCEPT !.pc = "login"]
    /\ UNCHANGED <<auth_key, cyc, data, cmd, switch, now, refresh, parse,
                   commanded, device>>

SetupInvoke == \E pw \in Passwords : SetupStart(pw)

\* login returned or raised.  After a login that returned, the coordinator is
\* created and its first refresh runs _async_update_data to its first await.
SetupLogin ==
    /\ entry.pc = "login"
    /\ call["user"].pc = "done"
    /\ LET r == call["user"].result
       IN  IF r.kind = "ok"
           THEN /\ entry' = [entry EXCEPT !.pc = "first_refresh", !.coordinator = TRUE]
                /\ call' = [call EXCEPT !["user"] = IdleCall,
                                        !["coord"] = Begin("coord", "get_all", 0)]
                /\ cyc' = [IdleCycle EXCEPT !.pc = "get_all"]
           ELSE /\ entry' = [entry EXCEPT !.pc = "failed",
                                          !.outcome = SetupLoginFailure(r.kind)]
                /\ call' = [call EXCEPT !["user"] = IdleCall]
                /\ UNCHANGED cyc
    /\ UNCHANGED <<auth_key, password, data, cmd, switch, now, refresh, parse,
                   commanded, device>>

\* The first refresh returned or raised; after a published first snapshot the
\* runtime data is stored and the platforms create their entities.
SetupFirstRefresh ==
    /\ entry.pc = "first_refresh"
    /\ cyc.pc = "done"
    /\ cyc' = IdleCycle
    /\ entry' = IF cyc.outcome = "published"
                THEN [entry EXCEPT !.pc = "loaded", !.outcome = "loaded",
                                   !.platforms = Platforms(data[1])]
                ELSE [entry EXCEPT !.pc = "failed",
                                   !.outcome = FirstRefreshFailure(cyc.outcome)]
    /\ UNCHANGED <<auth_key, password, call, data, cmd, switch, now, refresh, parse,
                   commanded, device>>

\* The coordinator's timer (update_interval) starts a poll of the loaded entry.
ScheduledPoll == entry.pc = "loaded" /\ PollStart

ScheduledPollEnd == entry.pc = "loaded" /\ PollEnd

NextSetup ==
    \/ SetupInvoke
    \/ SetupLogin
    \/ SetupFirstRefresh
    \/ Transport
    \/ PollAllData
    \/ PollLockStatus
    \/ ScheduledPoll
    \/ ScheduledPollEnd

\* The config entry from its setup on: login, first refresh, periodic polls.
SpecSetup == Init /\ [][NextSetup]_vars

\* Every awaited request ends (response, failure or the session's timeout),
\* the event loop resumes every task that can run, and the timer keeps firing.
FairSetup ==
    /\ SpecSetup
    /\ WF_vars(Transport)
    /\ WF_vars(PollAllData)
    /\ WF_vars(PollLockStatus)
    /\ WF_vars(ScheduledPoll)
    /\ WF_vars(ScheduledPollEnd)

\* ------------------------------------------------------------------ entities

\* A poll of the loaded entry starts, on a timer tick or on a requested
\* refresh; a pending refresh request is served by it.
EntityPoll ==
    /\ entry.pc = "loaded"
    /\ StartCycle
    /\ refresh' = FALSE
    /\ UNCHANGED <<entry, cmd, switch, now, parse,
                   commanded, device>>

\* The values a number is set to.  A float is held as a whole number of
\* halves: 12 is 6.0, 24 is 12.0.
SetValues == {12, 24}

\* int(value) of a float held in halves.
int(value) == value \div 2

\* Mutant: only the limit that changed is sent, the others as 0.
PowerArgs_ChangedOnly(all_data, key, value) ==
    << IF key = "max_current_total" THEN int(value) ELSE 0,
       IF key = "max_current_car1" THEN int(value) ELSE 0,
       IF key = "max_current_car2" THEN int(value) ELSE 0 >>

\* The three limits async_set_native_value passes to set_power: the snapshot's
\* values with the entity's own limit replaced.
PowerArgs(all_data, key, value) ==
    << IF key = "max_current_total" THEN int(value) ELSE all_data.max_current_total,
       IF key = "max_current_car1" THEN int(value) ELSE all_data.max_current_car1,
       IF key = "max_current_car2" THEN int(value) ELSE all_data.max_current_car2 >>

\* async_set_native_value up to its first await: set_power's request.
SetNativeValue(key, value) ==
    /\ entry.pc = "loaded"
    /\ key \in entry.platforms.number
    /\ cmd.kind = "none"
    /\ call["user"].pc = "idle"
    /\ call' = [call EXCEPT !["user"] =
                    Begin("user", "set_power", PowerArgs(data[1].all_data, key, value))]
    /\ cmd' = [NoCommand EXCEPT !.kind = "set_value", !.key = key, !.value = value]
    /\ UNCHANGED <<auth_key, password, cyc, data, entry, switch, now, refresh, parse,
                   commanded, device>>

\* A number of the loaded entry is set while no poll is running.
NumberInvoke ==
    /\ cyc.pc = "idle"
    /\ \E key \in {"max_current_total", "max_current_car1", "max_current_car2"} :
            \E value \in SetValues : SetNativeValue(key, value)

\* A poll starts while no entity command is running.
PollBetweenCommands == cmd.kind = "none" /\ EntityPoll

\* set_power returned, and async_set_native_value requests a refresh; or it
\* raised, and the error leaves async_set_native_value.
NumberReturns ==
    /\ cmd.kind = "set_value"
    /\ call["user"].pc = "done"
    /\ refresh' = (refresh \/ call["user"].result.kind = "ok")
    /\ commanded' = IF call["user"].result.kind = "ok"
                    THEN Some([key |-> cmd.key, value |-> int(cmd.value)])
                    ELSE None
    /\ call' = [call EXCEPT !["user"] = IdleCall]
    /\ cmd' = NoCommand
    /\ UNCHANGED <<auth_key, password, cyc, data, entry, switch, now, parse,
                   device>>

NextNumber ==
    \/ SetupInvoke
    \/ SetupLogin
    \/ SetupFirstRefresh
    \/ Transport
    \/ PollAllData
    \/ PollLockStatus
    \/ PollBetweenCommands
    \/ ScheduledPollEnd
    \/ NumberInvoke
    \/ NumberReturns

\* The loaded entry: its polls and the commands of its numbers, one at a time
\* (how a poll and a command interleave inside the client is Spec's subject).
SpecNumber == Init /\ [][NextNumber]_vars

\* switch.py: the optimistic state of a lock switch lasts this long.
LOCK_COOLDOWN_SECONDS == 20

\* The steps, in seconds, in which the monotonic clock is seen to advance.
Delays == {10}

\* DESCRIPTIONS[side].is_on_fn
is_on_fn(side, x) ==
    /\ x.lock_status # None
    /\ IF side = 0 THEN x.lock_status[1].lock_status1 = "Locked"
       ELSE x.lock_status[1].lock_status2 = "Locked"

\* Mutant: the window still counts as running at its deadline.
WindowActive_Inclusive(sw, t) ==
    sw._assumed_state # None /\ t <= sw._assumed_state_until

\* is_on's test: an assumed state is set and its window has not run out.
WindowActive(sw, t) == sw._assumed_state # None /\ t < sw._assumed_state_until

\* What PrachtAlphaSwitchEntity.is_on returns for the switch of `side`.
is_on(side) ==
    IF WindowActive(switch[side], now) THEN switch[side]._assumed_state[1]
    ELSE is_on_fn(side, data[1])

\* is_on is read after the window ran out: it forgets the assumed state.
IsOnRead(side) ==
    /\ side \in entry.platforms.switch
    /\ switch[side]._assumed_state # None
    /\ ~WindowActive(switch[side], now)
    /\ switch' = [switch EXCEPT ![side]._assumed_state = None]
    /\ UNCHANGED <<auth_key, password, call, cyc, data, entry, cmd, now, refresh, parse,
                   commanded, device>>

\* async_turn_on / async_turn_off up to the first await: lock's or unlock's
\* request.
Turn(side, kind) ==
    /\ entry.pc = "loaded"
    /\ side \in entry.platforms.switch
    /\ cmd.kind = "none"
    /\ call["user"].pc = "idle"
    /\ call' = [call EXCEPT !["user"] =
                    Begin("user", IF kind = "turn_on" THEN "lock" ELSE "unlock", side)]
    /\ cmd' = [NoCommand EXCEPT !.kind = kind, !.side = side]
    /\ UNCHANGED <<auth_key, password, cyc, data, entry, switch, now, refresh, parse,
                   commanded, device>>

\* A lock switch of the loaded entry is turned while no poll is running.
SwitchInvoke ==
    /\ cyc.pc = "idle"
    /\ \E side \in Sides : \E kind \in {"turn_on", "turn_off"} : Turn(side, kind)

\* lock / unlock returned, and the switch assumes the commanded state for the
\* cooldown; or it raised, and the error leaves async_turn_on / async_turn_off.
SwitchReturns ==
    /\ cmd.kind \in {"turn_on", "turn_off"}
    /\ call["user"].pc = "done"
    /\ switch' = IF call["user"].result.kind = "ok"
                 THEN [switch EXCEPT ![cmd.side] =
                        [_assumed_state |-> Some(cmd.kind = "turn_on"),
                         _assumed_state_until |-> now + LOCK_COOLDOWN_SECONDS]]
                 ELSE switch
    /\ call' = [call EXCEPT !["user"] = IdleCall]
    /\ cmd' = NoCommand
    /\ UNCHANGED <<auth_key, password, cyc, data, entry, now, refresh, parse,
                   commanded, device>>

\* time.monotonic() advances.
Tick ==
    \E d \in Delays :
        /\ now + d <= MaxTime
        /\ now' = now + d
        /\ UNCHANGED <<auth_key, password, call, cyc, data, entry, cmd, switch,
                       refresh, parse,
                       commanded, device>>

SwitchRead == \E side \in Sides : IsOnRead(side)

NextSwitch ==
    \/ SetupInvoke
    \/ SetupLogin
    \/ SetupFirstRefresh
    \/ Transport
    \/ PollAllData
    \/ PollLockStatus
    \/ PollBetweenCommands
    \/ ScheduledPollEnd
    \/ SwitchInvoke
    \/ SwitchReturns
    \/ SwitchRead
    \/ Tick

\* The loaded entry: its polls and the commands of its lock switches, one at
\* a time, while the clock advances.
SpecSwitch == Init /\ [][NextSwitch]_vars

\* ------------------------------------------------------------------ parsing

\* A field of a raw body: absent, or present with one of `values`.
OptionalField(values) == {None} \cup {Some(v) : v \in values}

\* The dict holding the fields of record r that are present.
PresentFields(r) == [k \in {f \in DOMAIN r : r[f] # None} |-> r[k][1]]

\* The raw integers the device sends in flag and count fields.
RawInts == 0..MaxRaw

\* Structured /api/v1/all bodies with any subset of these fields present.
RawAllData ==
    { PresentFields([SupportLockUnlock |-> a, LedSupport |-> b, RfidSupported |-> c,
                     SystemInitialized |-> d, NumChargingPoints |-> e,
                     MaxCurrentTotal |-> f, EnergyCar1 |-> g, EnergyCar2 |-> h,
                     SoftwareVersion |-> i]) :
        a \in OptionalField(RawInts), b \in OptionalField(RawInts),
        c \in OptionalField(RawInts), d \in OptionalField(RawInts),
        e \in OptionalField(RawInts), f \in OptionalField({0, 16}),
        g \in OptionalField({0, 5}), h \in OptionalField({7}),
        i \in OptionalField({12}) }

\* Structured /api/v1/lock_status bodies with any subset of these fields.
RawLockStatus ==
    { PresentFields([LockStatus1 |-> a, LockStatus2 |-> b, TimerStatus1 |-> c,
                     TimerStatus2 |-> d, PowerStatus1 |-> e, PowerStatus2 |-> f,
                     TimerRemainingTime1 |-> g]) :
        a \in OptionalField({"Locked", "Unlocked"}), b \in OptionalField({"Locked"}),
        c \in OptionalField({"Running"}), d \in OptionalField({"Running"}),
        e \in OptionalField({"Running"}), f \in OptionalField({"Running"}),
        g \in OptionalField({0, 30}) }

\* get_all hands the structured body to _parse_all_data.
ParseAllData ==
    /\ parse.path = AllPath
    /\ parse.out = None
    /\ parse' = [parse EXCEPT !.out = Some(_parse_all_data(parse.raw))]
    /\ UNCHANGED <<auth_key, password, call, cyc, data, entry, cmd, switch, now, refresh,
                   commanded, device>>

\* get_lock_status hands the structured body to _parse_lock_status.
ParseLockStatus ==
    /\ parse.path = LockStatusPath
    /\ parse.out = None
    /\ parse' = [parse EXCEPT !.out = Some(_parse_lock_status(parse.raw))]
    /\ UNCHANGED <<auth_key, password, call, cyc, data, entry, cmd, switch, now, refresh,
                   commanded, device>>

InitParse ==
    /\ auth_key = None
    /\ password = None
    /\ call = [c \in Callers |-> IdleCall]
    /\ cyc = IdleCycle
    /\ data = None
    /\ InitHost
    /\ parse \in {[path |-> AllPath, raw |-> d, out |-> None] : d \in RawAllData}
            \cup {[path |-> LockStatusPath, raw |-> d, out |-> None] :
                        d \in RawLockStatus}

NextParse ==
    \/ ParseAllData
    \/ ParseLockStatus

\* The parsers applied to every structured body of the two telemetry endpoints.
SpecParse == InitParse /\ [][NextParse]_vars

\* ------------------------------------------------------------------- device

\* The password the wallbox is configured with.
ValidPassword == "pw"

\* The keys the client still holds or has on the wire.
KeysInUse ==
    {k \in Keys : \/ auth_key = Some(k)
                  \/ device = Some(k)
                  \/ \E c \in Callers : call[c].sent.hdr = Some(k)}

\* The keys a login may be answered with: none that was issued before and is
\* still around.
FreshKeys == Keys \ KeysInUse

\* The status the wallbox answers a request with: a login carrying the valid
\* password is accepted; any other request is accepted when it carries the
\* key of the latest login, and denied otherwise.
DeviceStatus(sent) ==
    IF sent.path = LoginPath
    THEN IF sent.json.Password = Some(ValidPassword) THEN 200 ELSE 403
    ELSE IF sent.hdr # None /\ sent.hdr = device THEN 200 ELSE 403

\* The wallbox answers the request caller c is waiting on.
DeviceHead(c) == ResponseHead(c, DeviceStatus(call[c].sent))

\* The wallbox delivers the body of its answer.  An accepted login is answered
\* with a fresh key, which supersedes the key issued before.
DeviceBody(c) ==
    /\ call[c].pc = "body"
    /\ IF call[c].sent.path = LoginPath /\ call[c].resp.status = 200
       THEN \E k \in FreshKeys :
                /\ ReceiveBody(c, [kind |-> "dict", d |-> [AuthKey |-> k]])
                /\ device' = Some(k)
       ELSE /\ \E body \in ResponseBodies(call[c].sent.path, call[c].resp.status) :
                    /\ call[c].resp.status = 200 => body.kind = "dict"
                    /\ ReceiveBody(c, body)
            /\ device' = device
    /\ UNCHANGED <<entry, cmd, switch, now, refresh, parse, commanded>>

DeviceAnswers == \E c \in Callers : DeviceHead(c) \/ DeviceBody(c)

\* The wallbox restarts while no request is under way and forgets the key it
\* issued.
DeviceRestarts ==
    /\ device # None
    /\ \A c \in Callers : call[c].pc = "idle"
    /\ device' = None
    /\ UNCHANGED <<auth_key, password, call, cyc, data, entry, cmd, switch, now,
                   refresh, parse, commanded>>

\* The setup's login with the configured password.
DeviceLogin == Invoke("user", "login", ValidPassword)

\* The commands the entities issue once the password is stored.
DeviceCalls == {<<"lock", 0>>, <<"set_power", <<16, 16, 10>>>>}

DeviceCommand ==
    /\ password = Some(ValidPassword)
    /\ \E uc \in DeviceCalls : Invoke("user", uc[1], uc[2])

\* The coordinator polls once the password is stored.
DevicePoll == password = Some(ValidPassword) /\ PollStart

NextDevice ==
    \/ DeviceLogin
    \/ DeviceCommand
    \/ UserReturn
    \/ DeviceAnswers
    \/ DeviceRestarts
    \/ DevicePoll
    \/ PollAllData
    \/ PollLockStatus
    \/ PollEnd

\* The client against a wallbox that answers every request: poll cycles and
\* commands interleave at every await.
SpecDevice == Init /\ [][NextDevice]_vars

\* -------------------------------------------------------------- properties

\* In this step caller c receives the head of a response with `status`.
HeadArrives(c, status) ==
    /\ call[c].pc = "head"
    /\ call'[c] # call[c]
    /\ ~call'[c].netfail
    /\ call'[c].resp.status = status

\* In this step caller c receives the whole body of the response.
BodyArrives(c) ==
    /\ call[c].pc = "body"
    /\ call'[c] # call[c]
    /\ call'[c].resp.body # LostBody

\* In this step caller c puts a request on the wire.
Sends(c) ==
    /\ call'[c].pc = "head"
    /\ call[c].pc # "head" \/ call'[c].frame # call[c].frame

\* A login response body that carries a key.
CarriesKey(body) == body.kind = "dict" /\ "AuthKey" \in DOMAIN body.d

\* `stored` says whether the client holds a password to re-login with.
C1_Step(c, stored) ==
    LET a == call[c]
        b == call'[c]
    IN  /\ b.op \in AuthenticatedOps => b.nlogin <= 1 /\ b.ntry <= 2
        /\ (a.op \in AuthenticatedOps /\ a.frame = "first" /\ HeadArrives(c, 403)
                /\ stored)
            => /\ b.pc = "head" /\ b.frame = "login"
               /\ b.sent.method = "POST" /\ b.sent.path = LoginPath
               /\ b.sent.json = [Password |-> password]
               /\ b.nlogin = 1 /\ b.ntry = 1
        /\ (a.op \in AuthenticatedOps /\ a.frame = "login" /\ a.resp.status = 200
                /\ BodyArrives(c) /\ CarriesKey(b.resp.body))
            => /\ b.pc = "head" /\ b.frame = "retry"
               /\ b.sent.method = a.req.method /\ b.sent.path = a.req.path
               /\ b.sent.json = a.req.json
               /\ b.nlogin = 1 /\ b.ntry = 2
        /\ (a.op \in AuthenticatedOps /\ a.frame = "retry" /\ HeadArrives(c, 403))
            => /\ b.pc = "done" /\ b.result.kind = "AuthError"
               /\ b.sent = a.sent
               /\ b.nlogin = 1 /\ b.ntry = 2

\* C1 (amended): for every authenticated operation running while a non-empty
\* password is stored, a 403 on the first attempt makes the client send exactly
\* one login request; when that login yields a key it sends exactly one retry
\* of the original request; a 403 on the retry ends the operation with
\* AuthError, with no further login and no further retry.  No operation ever
\* sends more than one login request or more than two attempts.
C1_ReloginOnceRetryOnce ==
    [][\A c \in Callers : C1_Step(c, password # None /\ password[1] # "")]_vars

\* C1 (as stated): the same for every stored password, the empty string
\* included.
C1_AnyStoredPassword == [][\A c \in Callers : C1_Step(c, password # None)]_vars

C1_Witness ==
    \E c \in Callers :
        /\ call[c].op \in AuthenticatedOps
        /\ call[c].frame = "retry" /\ call[c].pc = "done"
        /\ call[c].resp.status = 403
        /\ call[c].result.kind = "AuthError"
        /\ call[c].nlogin = 1 /\ call[c].ntry = 2

C2_Step(c) ==
    LET a == call[c]
        b == call'[c]
    IN  (a.op \in AuthenticatedOps /\ HeadArrives(c, 403) /\ password = None)
            => /\ b.pc = "done" /\ b.result.kind = "AuthError"
               /\ b.sent = a.sent
               /\ b.nlogin = 0 /\ b.ntry = 1
               /\ auth_key' = auth_key

\* C2: a 403 on an authenticated request while no password is stored ends the
\* operation with AuthError at once: no login request, no retry, and the auth
\* key is left as it was.
C2_NoPasswordNoRelogin == [][\A c \in Callers : C2_Step(c)]_vars

C2_Witness ==
    /\ password = None
    /\ call["user"].op \in AuthenticatedOps
    /\ call["user"].pc = "done"
    /\ call["user"].resp.status = 403
    /\ call["user"].result.kind = "AuthError"
    /\ call["user"].nlogin = 0 /\ call["user"].ntry = 1

C3_Step(c) ==
    LET a == call[c]
        b == call'[c]
    IN  /\ (a.op = "login" /\ a.resp.status = 200 /\ BodyArrives(c)
                /\ CarriesKey(b.resp.body))
            => /\ auth_key' = Some(b.resp.body.d["AuthKey"])
               /\ b.pc = "done" /\ b.result.kind = "ok"
        /\ (b.op = "get_all" /\ b.frame = "first" /\ Sends(c))
            => b.sent = [method |-> "GET", path |-> AllPath, json |-> NoJson,
                         hdr |-> auth_key']
        /\ (a.op = "get_all" /\ a.frame = "login" /\ a.resp.status = 200
                /\ BodyArrives(c) /\ CarriesKey(b.resp.body))
            => /\ auth_key' = Some(b.resp.body.d["AuthKey"])
               /\ b.pc = "head" /\ b.frame = "retry"
               /\ b.sent = [method |-> "GET", path |-> AllPath, json |-> NoJson,
                            hdr |-> Some(b.resp.body.d["AuthKey"])]
        /\ (a.op = "get_all" /\ a.frame = "retry" /\ a.resp.status = 200
                /\ BodyArrives(c) /\ b.resp.body.kind = "dict")
            => /\ b.pc = "done" /\ b.result.kind = "ok"
               /\ b.result.value = _parse_all_data(b.resp.body.d)

\* C3: a successful login stores the returned key; a get_all request carries
\* the stored key in its AuthKey header; when it is answered 403 and the
\* re-login returns a new key, the retry is the same GET /api/v1/all with the
\* new key in its header; a 200 answer to the retry with a structured body
\* gives the caller the parsed AllData and no error.
C3_ReauthEndToEnd == [][\A c \in Callers : C3_Step(c)]_vars

C3_Witness ==
    \E c \in Callers :
        /\ call[c].op = "get_all" /\ call[c].frame = "retry"
        /\ call[c].pc = "done" /\ call[c].result.kind = "ok"
        /\ call[c].nlogin = 1 /\ call[c].ntry = 2
        /\ call[c].sent.hdr # None
        /\ call[c].result.value = _parse_all_data(call[c].resp.body.d)

\* C4 (as stated): an operation in which any exchange failed in transport,
\* while the request was made or while the response was received, fails with
\* ConnectionError.
C4_NetworkFailureIsConnectionError ==
    \A c \in Callers :
        (call[c].pc = "done" /\ call[c].netfail)
            => call[c].result.kind = "ConnectionError"

C5_Step(c) ==
    LET a == call[c]
        b == call'[c]
    IN  /\ \A s \in Statuses \ {200, 403} :
            HeadArrives(c, s)
                => /\ b.pc = "body" /\ b.frame = a.frame /\ b.sent = a.sent
                   /\ b.nlogin = a.nlogin /\ b.ntry = a.ntry
        /\ (a.resp.status \notin {200, 403} /\ BodyArrives(c))
            => /\ b.pc = "done"
               /\ b.result.kind = "ProtocolError"
               /\ b.result.status = a.resp.status
               /\ b.result.text = b.resp.body
               /\ b.frame = a.frame /\ b.sent = a.sent
               /\ b.nlogin = a.nlogin /\ b.ntry = a.ntry

C6_Step(c) ==
    Sends(c)
        => /\ call'[c].sent.path = LoginPath => call'[c].sent.hdr = None
           /\ call'[c].sent.path # LoginPath => call'[c].sent.hdr = auth_key'

\* C6: every request sent to an endpoint other than /api/v1/login carries the
\* client's auth key of that moment in its AuthKey header (and none while no
\* key is stored); every request to /api/v1/login, explicit or re-login,
\* carries no AuthKey header.
C6_AuthKeyHeader == [][\A c \in Callers : C6_Step(c)]_vars

C6_Witness ==
    /\ auth_key # None
    /\ call["user"].op = "set_led_mode" /\ call["user"].frame = "retry"
    /\ call["user"].pc = "head"
    /\ call["user"].sent.path = LedModePath
    /\ call["user"].sent.hdr = auth_key

\* In this step caller c receives a 200 login response with its whole body.
LoginAnswered(c) ==
    call[c].frame = "login" /\ call[c].resp.status = 200 /\ BodyArrives(c)

C7_Step ==
    /\ \A c \in Callers :
        LET a == call[c]
            b == call'[c]
        IN  /\ (b.op = "login" /\ Sends(c)) => password' = b.sent.json.Password
            /\ (LoginAnswered(c) /\ CarriesKey(b.resp.body))
                => /\ auth_key' = Some(b.resp.body.d["AuthKey"])
                   /\ password' = password
                   /\ a.op = "login"
                        => /\ b.pc = "done" /\ b.result.kind = "ok"
                           /\ b.result.value = Some(b.resp.body.d["AuthKey"])
            /\ (LoginAnswered(c) /\ ~CarriesKey(b.resp.body))
                => /\ b.pc = "done" /\ b.result.kind = "AuthError"
                   /\ auth_key' = auth_key
    /\ auth_key' # auth_key
        => \E c \in Callers : LoginAnswered(c) /\ CarriesKey(call'[c].resp.body)
    /\ password' # password
        => \E c \in Callers : call'[c].op = "login" /\ Sends(c)

\* C7: login(password) keeps the password; a login or re-login response that
\* carries a key overwrites the auth key with exactly that key, and login
\* returns it; a 200 response without a key fails with AuthError.  The auth
\* key changes in no other step: a login or re-login that fails (403, other
\* status, no key, transport failure) leaves it as it was.
C7_LoginStoresKey == [][C7_Step]_vars

C7_Witness ==
    /\ call["user"].op = "login" /\ call["user"].pc = "done"
    /\ call["user"].result.kind = "ok"
    /\ call["user"].result.value = auth_key
    /\ password = call["user"].sent.json.Password
    /\ call["coord"].pc = "head"
    /\ call["coord"].sent.hdr # None /\ call["coord"].sent.hdr # auth_key

\* In this step the poll cycle takes the result of the fetch it waits for.
FetchEnds(pc) == cyc.pc = pc /\ cyc' # cyc

C8_Step ==
    LET kind == call["coord"].result.kind
    IN  (FetchEnds("get_all") /\ kind \in {"AuthError", "ConnectionError", "ProtocolError"})
            => /\ cyc'.pc = "done"
               /\ call'["coord"].pc = "idle"
               /\ data' = data
               /\ kind = "AuthError" => cyc'.outcome = "ConfigEntryAuthFailed"
               /\ kind = "ConnectionError"
                    => cyc'.outcome = "UpdateFailed:communication_error"
               /\ kind = "ProtocolError"
                    => cyc'.outcome = "UpdateFailed:unknown_error"

\* C8: when get_all fails, the poll cycle ends there and publishes nothing:
\* AuthError raises ConfigEntryAuthFailed, ConnectionError raises UpdateFailed
\* 'communication_error', any other client error raises UpdateFailed
\* 'unknown_error'; the published snapshot stays the previous one.
C8_PrimaryFailureClassified == [][C8_Step]_vars

C8_Witness ==
    /\ cyc.pc = "done"
    /\ cyc.all_res = "AuthError"
    /\ cyc.outcome = "ConfigEntryAuthFailed"
    /\ data # None

C9_Step ==
    LET r == call["coord"].result
    IN  /\ (FetchEnds("get_all") /\ r.kind = "ok" /\ cyc'.pc = "lock_status")
            => r.value.support_lock_unlock /\ cyc'.all_data = Some(r.value)
        /\ (FetchEnds("lock_status") /\ r.kind \in {"ConnectionError", "ProtocolError"})
            => /\ cyc'.pc = "done"
               /\ cyc'.outcome = "published"
               /\ data' = Some([all_data |-> cyc.all_data[1], lock_status |-> None])

\* C9: in a cycle whose get_all succeeded with supportLockUnlock true, a
\* lock-status fetch that fails with ConnectionError or ProtocolError does not
\* fail the cycle: it publishes the AllData of this cycle with lockStatus null.
C9_LockFailurePublishes == [][C9_Step]_vars

C9_Witness ==
    /\ cyc.pc = "done"
    /\ cyc.lock_res = "ConnectionError"
    /\ cyc.outcome = "published"
    /\ cyc.all_data[1].support_lock_unlock
    /\ data = Some([all_data |-> cyc.all_data[1], lock_status |-> None])

\* C10 (as stated): whatever error kind get_lock_status raises
\* (ConnectionError, ProtocolError, AuthError), a cycle whose get_all succeeded
\* publishes the telemetry snapshot with lockStatus null and raises nothing.
C10_NoLockFailureFailsCycle ==
    (/\ cyc.pc = "done"
     /\ cyc.all_res = "ok"
     /\ cyc.lock_res \in {"ConnectionError", "ProtocolError", "AuthError"})
        => /\ cyc.outcome = "published"
           /\ data = Some([all_data |-> cyc.all_data[1], lock_status |-> None])

\* The outcomes of a poll cycle that the coordinator's consumers are meant to
\* see: a published snapshot, a transient update failure, an authentication
\* failure.
ClassifiedOutcomes ==
    {"published", "UpdateFailed:communication_error", "UpdateFailed:unknown_error",
     "ConfigEntryAuthFailed"}

\* The error kinds the client raises on purpose.
ClientErrorKinds == {"AuthError", "ConnectionError", "ProtocolError"}

\* C11 (as stated): a poll cycle in which get_all or get_lock_status raised a
\* client error (PrachtAlphaAuthError, PrachtAlphaConnectionError,
\* PrachtAlphaError) ends published, as update failure or as authentication
\* failure; the client error never leaves _async_update_data unclassified.
C11_NoClientErrorEscapes ==
    (/\ cyc.pc = "done"
     /\ cyc.all_res \in ClientErrorKinds \/ cyc.lock_res \in ClientErrorKinds)
        => cyc.outcome \in ClassifiedOutcomes

\* Caller c is inside the re-login of an authenticated operation: the login
\* request is sent and the auth key is not yet replaced.
ReloginInFlight(c) ==
    /\ call[c].op \in AuthenticatedOps
    /\ call[c].frame = "login"
    /\ call[c].pc \in {"head", "body"}

\* In this step caller c sends an authenticated request.
SendsAuthenticated(c) == Sends(c) /\ call'[c].frame # "login"

\* In this step caller c starts a re-login.
StartsRelogin(c) == ~ReloginInFlight(c) /\ ReloginInFlight(c)'

C14_Step ==
    \A c \in Callers :
        ReloginInFlight(c)
            => \A d \in Callers \ {c} :
                    /\ ~ReloginInFlight(d)
                    /\ ~StartsRelogin(d)
                    /\ ~(SendsAuthenticated(d) /\ ReloginInFlight(c)')

\* C14 (as stated): while one caller's re-login is in flight no other caller
\* has a re-login in flight, starts one, or sends an authenticated request
\* (which would carry the key about to be replaced).
C14_ReloginSerialized == [][C14_Step]_vars

C19_Step ==
    LET a == call["coord"]
        b == call'["coord"]
    IN  /\ (b.op = "get_lock_status" /\ b.frame = "first" /\ Sends("coord"))
            => /\ cyc.pc = "get_all" /\ cyc'.pc = "lock_status"
               /\ a.op = "get_all" /\ a.pc = "done" /\ a.result.kind = "ok"
               /\ a.result.value.support_lock_unlock
               /\ cyc'.all_data = Some(a.result.value)
        /\ (FetchEnds("get_all")
                /\ (a.result.kind # "ok" \/ ~a.result.value.support_lock_unlock))
            => cyc'.pc = "done" /\ b.pc = "idle"
        /\ b.op = "get_lock_status" => cyc'.pc = "lock_status"
        /\ (data' # None /\ data'[1].lock_status # None)
            => data'[1].all_data.support_lock_unlock

\* C19: the coordinator sends the lock-status request only in the step in
\* which the get_all of the same cycle returned AllData with supportLockUnlock
\* true, so never while that get_all is running; a failed get_all or a false
\* flag ends the cycle without a lock-status request.  Every published
\* snapshot has a non-null lockStatus only if its allData.supportLockUnlock
\* is true.
C19_LockStatusAfterAllData == [][C19_Step]_vars

C19_Witness ==
    /\ cyc.pc = "done" /\ cyc.outcome = "published"
    /\ cyc.lock_res = "ok"
    /\ data # None /\ data[1].lock_status # None
    /\ data[1].all_data.support_lock_unlock

\* The parser has turned a raw body of `path` into its dataclass.
Parsed(path) == parse.path = path /\ parse.out # None

\* C17: for every structured /api/v1/all body the derived num_charging_points
\* is 1 or 2; it is 2 exactly when the raw NumChargingPoints is present and 0;
\* it is 1 for every nonzero raw value and when the field is absent.
C17_NumChargingPointsInversion ==
    Parsed(AllPath)
        => LET raw == parse.raw
               n == parse.out[1].num_charging_points
               present == "NumChargingPoints" \in DOMAIN raw
           IN  /\ n \in {1, 2}
               /\ n = 2 <=> (present /\ raw["NumChargingPoints"] = 0)
               /\ (present /\ raw["NumChargingPoints"] # 0) => n = 1
               /\ ~present => n = 1

C17_Witness ==
    /\ Parsed(AllPath)
    /\ "NumChargingPoints" \in DOMAIN parse.raw
    /\ parse.raw["NumChargingPoints"] = 0
    /\ parse.out[1].num_charging_points = 2

\* Raw field and dataclass field of the capability flags.
FlagFields ==
    { <<"SupportLockUnlock", "support_lock_unlock">>, <<"LedSupport", "led_support">>,
      <<"RfidSupported", "rfid_supported">>,
      <<"SystemInitialized", "system_initialized">> }

\* Raw field and dataclass field of the numeric fields of /api/v1/all.
NumericFields ==
    { <<"HardwareRevision", "hardware_revision">>, <<"ErrorCode", "error_code">>,
      <<"Uptime", "uptime">>, <<"MaxCurrentTotal", "max_current_total">>,
      <<"MaxCurrentCar1", "max_current_car1">>,
      <<"MaxCurrentCar2", "max_current_car2">>,
      <<"MaxCurrentPerSide", "max_current_per_side">>,
      <<"CurrentCar1", "current_car1">>, <<"CurrentCar2", "current_car2">>,
      <<"PowerCar1", "power_car1">>, <<"PowerCar2", "power_car2">>,
      <<"StatusCar1", "status_car1">>, <<"StatusCar2", "status_car2">>,
      <<"CurrentMeasSupport", "current_meas_support">>,
      <<"CommPcbTemperature", "comm_pcb_temperature">>,
      <<"BoxTemperature", "box_temperature">>,
      <<"CurrentSettingInputLead", "current_setting_input_lead">>,
      <<"SwVersionMainPcb", "sw_version_main_pcb">>,
      <<"SwVersionModbusRfidModule", "sw_version_modbus_rfid">> }

EnergyFields == {<<"EnergyCar1", "energy_car1">>, <<"EnergyCar2", "energy_car2">>}

\* Raw field, dataclass field and documented default of the status strings.
StatusFields ==
    { <<"LockStatus1", "lock_status1", "Unlocked">>,
      <<"LockStatus2", "lock_status2", "Unlocked">>,
      <<"TimerStatus1", "timer_status1", "Stopped">>,
      <<"TimerStatus2", "timer_status2", "Stopped">>,
      <<"PowerStatus1", "power_status1", "Stopped">>,
      <<"PowerStatus2", "power_status2", "Stopped">> }

LockNumericFields ==
    { <<"TimerRemainingTime1", "timer_remaining_time1">>,
      <<"TimerRemainingTime2", "timer_remaining_time2">>,
      <<"TimerRemainingPower1", "timer_remaining_power1">>,
      <<"TimerRemainingPower2", "timer_remaining_power2">> }

\* C18: for every structured body with any subset of its fields missing, a
\* flag is true exactly when its raw value is present and equal to 1; a
\* numeric field is its raw value, 0 when absent; EnergyCar1 and EnergyCar2
\* are their raw value, null when absent (a present 0 stays 0); a status
\* string of the lock status is its raw value, "Unlocked" or "Stopped" when
\* absent, never the empty string.
C18_ParsingDefaults ==
    LET raw == parse.raw
        out == parse.out[1]
    IN  /\ Parsed(AllPath)
            => /\ \A p \in FlagFields :
                    out[p[2]] = (p[1] \in DOMAIN raw /\ raw[p[1]] = 1)
               /\ \A p \in NumericFields :
                    out[p[2]] = IF p[1] \in DOMAIN raw THEN raw[p[1]] ELSE 0
               /\ \A p \in EnergyFields :
                    out[p[2]] = IF p[1] \in DOMAIN raw THEN Some(raw[p[1]]) ELSE None
        /\ Parsed(LockStatusPath)
            => /\ \A p \in StatusFields :
                    /\ out[p[2]] = IF p[1] \in DOMAIN raw THEN raw[p[1]] ELSE p[3]
                    /\ p[1] \notin DOMAIN raw => out[p[2]] # ""
               /\ \A p \in LockNumericFields :
                    out[p[2]] = IF p[1] \in DOMAIN raw THEN raw[p[1]] ELSE 0

C18_Witness ==
    /\ Parsed(AllPath)
    /\ DOMAIN parse.raw = {"LedSupport", "EnergyCar2", "MaxCurrentTotal"}
    /\ parse.raw["LedSupport"] = 2
    /\ ~parse.out[1].led_support
    /\ ~parse.out[1].support_lock_unlock
    /\ parse.out[1].energy_car1 = None
    /\ parse.out[1].energy_car2 = Some(7)
    /\ parse.out[1].max_current_total = parse.raw["MaxCurrentTotal"]
    /\ parse.out[1].max_current_car1 = 0

\* In this step async_setup_entry takes the result of its login.
LoginEnds == entry.pc = "login" /\ entry'.pc # "login"

C16_Step ==
    LET kind == call["user"].result.kind
    IN  /\ (LoginEnds /\ kind = "ConnectionError")
            => entry'.pc = "failed" /\ entry'.outcome = "ConfigEntryNotReady"
        /\ (LoginEnds /\ kind = "AuthError")
            => entry'.pc = "failed" /\ entry'.outcome = "ConfigEntryAuthFailed"
        /\ (LoginEnds /\ kind \in {"ConnectionError", "AuthError"})
            => /\ ~entry'.coordinator
               /\ entry'.platforms = NoPlatforms
               /\ cyc' = IdleCycle /\ call'["coord"] = IdleCall
               /\ data' = None
        /\ (entry'.coordinator /\ ~entry.coordinator)
            => LoginEnds /\ call["user"].op = "login" /\ kind = "ok"
        /\ (cyc'.pc # "idle" \/ call'["coord"].pc # "idle") => entry'.coordinator
        /\ entry'.platforms # NoPlatforms => entry'.coordinator /\ data' # None
        /\ (entry.pc = "failed" /\ ~entry.coordinator)
            => /\ entry' = entry
               /\ cyc' = IdleCycle /\ call'["coord"] = IdleCall /\ data' = None

\* C16: when the setup's login fails with ConnectionError the setup raises
\* ConfigEntryNotReady, with AuthError it raises ConfigEntryAuthFailed; in
\* both cases no coordinator is created, no poll runs (then or later) and no
\* platform is set up.  A coordinator exists, a poll runs and platforms are
\* set up only after the login returned.
C16_SetupLoginFailure == [][C16_Step]_vars

C16_Witness ==
    /\ entry.pc = "failed"
    /\ entry.outcome = "ConfigEntryAuthFailed"
    /\ ~entry.coordinator
    /\ entry.platforms = NoPlatforms
    /\ cyc = IdleCycle /\ data = None

\* A finished poll cycle ended Published, AuthFailed or CommFailed.
PollOutcomeClassified == cyc.pc = "done" => cyc.outcome \in ClassifiedOutcomes

\* Whatever the outcome of a poll of the loaded entry, the coordinator returns
\* to idle and the next tick starts a new poll that repeats the fetch.
C20_NextPollStarts ==
    /\ (entry.pc = "loaded" /\ cyc.pc = "done") ~> (cyc.pc = "idle")
    /\ (entry.pc = "loaded" /\ cyc.pc = "idle") ~> (cyc.pc = "get_all")

\* C20 (as stated): every poll ends in exactly one of Published, AuthFailed
\* or CommFailed, then the coordinator returns to idle, and from idle the
\* next tick eventually starts a new poll cycle, whatever the outcome was.
C20_CycleHasNoTerminalState == []PollOutcomeClassified /\ C20_NextPollStarts

PowerFields == {"MaxCurrentTotal", "MaxCurrentCar1", "MaxCurrentCar2"}

\* The raw field of /api/v1/power that a number entity stands for.
PowerFieldOf(key) ==
    CASE key = "max_current_total" -> "MaxCurrentTotal"
      [] key = "max_current_car1" -> "MaxCurrentCar1"
      [] key = "max_current_car2" -> "MaxCurrentCar2"

\* The limits of snapshot x under their raw field names.
SnapshotLimits(x) ==
    [MaxCurrentTotal |-> x.all_data.max_current_total,
     MaxCurrentCar1 |-> x.all_data.max_current_car1,
     MaxCurrentCar2 |-> x.all_data.max_current_car2]

C13_Step ==
    LET a == call["user"]
        b == call'["user"]
    IN  /\ (cmd.kind = "none" /\ cmd'.kind = "set_value")
            => /\ b.op = "set_power" /\ b.pc = "head" /\ b.ntry = 1
               /\ b.sent.method = "POST" /\ b.sent.path = PowerPath
               /\ DOMAIN b.sent.json = PowerFields
               /\ \A f \in PowerFields :
                    IF f = PowerFieldOf(cmd'.key)
                    THEN 2 * b.sent.json[f] = cmd'.value
                    ELSE b.sent.json[f] = SnapshotLimits(data[1])[f]
        /\ (cmd.kind = "set_value" /\ Sends("user") /\ b.sent.path = PowerPath)
            => /\ a.frame = "login" /\ b.frame = "retry"
               /\ b.sent.method = "POST" /\ b.sent.json = a.req.json
        /\ (cmd.kind = "set_value" /\ cmd'.kind = "set_value")
            => b.op = "set_power" /\ b.req = a.req
        /\ (cmd.kind = "set_value" /\ cmd'.kind = "none")
            => /\ a.op = "set_power" /\ a.pc = "done"
               /\ a.ntry = 1 \/ (a.ntry = 2 /\ a.nlogin = 1)

C12_NullLockStatusNotUnlocked ==
    \A side \in entry.platforms.switch :
        (/\ entry.pc = "loaded"
         /\ data[1].lock_status = None
         /\ ~WindowActive(switch[side], now))
            => is_on(side) # FALSE

\* A lock or unlock command of `side` returns or raises in this step.
TurnEnds(side) ==
    /\ cmd.kind \in {"turn_on", "turn_off"}
    /\ cmd.side = side
    /\ call["user"].pc = "done"
    /\ cmd' = NoCommand

\* A command that succeeded at time `now` sets the commanded state and the
\* deadline now + 20; a command that failed leaves both as they were; nothing
\* else moves the deadline, and the assumed state is only ever dropped once
\* the deadline has been reached.
C21_Step ==
    \A side \in Sides :
        LET sw == switch[side]
            sw2 == switch'[side]
        IN  IF TurnEnds(side) /\ call["user"].result.kind = "ok"
            THEN sw2 = [_assumed_state |-> Some(cmd.kind = "turn_on"),
                        _assumed_state_until |-> now + 20]
            ELSE IF TurnEnds(side)
            THEN sw2 = sw
            ELSE /\ sw2._assumed_state_until = sw._assumed_state_until
                 /\ \/ sw2._assumed_state = sw._assumed_state
                    \/ /\ now >= sw._assumed_state_until
                       /\ sw2._assumed_state = None

\* What a read of each lock switch returns: before the deadline the commanded
\* state, from the deadline on the state derived from the current snapshot.
C21_Reads ==
    \A side \in entry.platforms.switch :
        IF now < switch[side]._assumed_state_until
        THEN /\ switch[side]._assumed_state # None
             /\ is_on(side) = switch[side]._assumed_state[1]
        ELSE is_on(side) = is_on_fn(side, data[1])

\* C21: after a lock (unlock) command of a side succeeds at time t, the switch
\* of that side reports locked (unlocked) at every read before t + 20 seconds
\* whatever the published snapshot says, and from t + 20 seconds on it reports
\* the state derived from the current snapshot; a later successful command
\* replaces the assumed state and restarts the window; a failed command leaves
\* the assumed state and its deadline unchanged.
C21_OptimisticLockState == []C21_Reads /\ [][C21_Step]_vars

\* A lock succeeded, time has passed within its window, the snapshot says the
\* side is not locked, and the switch reports locked.
C21_Witness ==
    \E side \in entry.platforms.switch :
        /\ now > 0
        /\ now < switch[side]._assumed_state_until
        /\ switch[side]._assumed_state = Some(TRUE)
        /\ ~is_on_fn(side, data[1])
        /\ is_on(side)

\* A number command begins in this step, following a successful command on a
\* different limit: the request it sends carries that command's value.
C22_Step ==
    (/\ cmd.kind = "none" /\ cmd'.kind = "set_value"
     /\ commanded # None
     /\ commanded[1].key # cmd'.key)
        => call'["user"].sent.json[PowerFieldOf(commanded[1].key)]
                = commanded[1].value

\* C22 (as stated): when two number entities set two different limits one
\* after the other, the second POST /api/v1/power carries the first command's
\* new value for the first limit, whether the refresh requested in between
\* succeeded, failed or has not completed.
C22_NoCommandedLimitReverted == [][C22_Step]_vars

\* C23 (as stated): with the valid password stored, no authenticated operation
\* of either caller ends with AuthError, however the poll cycle and the
\* commands interleave.
C23_NoAuthErrorWithValidPassword ==
    \A c \in Callers :
        (/\ password = Some(ValidPassword)
         /\ call[c].op \in AuthenticatedOps
         /\ call[c].pc = "done")
            => call[c].result.kind # "AuthError"

====
